---- MODULE Spec2Model ----
(***************************************************************************)
(* Window registry of rpncalc (src/src/main.cpp): calc::Window,            *)
(* calc::Windows and the registry operations of calc::App.                 *)
(***************************************************************************)
EXTENDS Integers, Sequences, FiniteSets, TLC

VARIABLES
    windows,        \* Windows::_windows : name -> Window
    windowsOrder,   \* Windows::_windowsOrder : sequence of names
    term,           \* <<getmaxy(stdscr), getmaxx(stdscr)>>
    crashed,        \* the process was terminated (uncaught exception, wild pointer)
    lastOp,         \* history: <<operation, argument>> of the last call
    redrawn,        \* history: windows whose draw() ran during the last call
    rtOrigin,       \* history: focus order before the current run of rotations
    rtFwd,          \* history: "rotate" events of the current run
    rtBack,         \* history: "rotate-back" events that followed them
    flushes,        \* history: what each doupdate() of the last call put on screen
    pc,             \* <<position of main(), last key read>>; "api": no main()
    grid,           \* a calc::Content object used on its own
    result,         \* history: what the last call on grid returned or threw
    surface,        \* history: what the last Content::print wrote
    assigned        \* history: cell -> the value last given to it by replace

vars == <<windows, windowsOrder, term, crashed, lastOp, redrawn,
          rtOrigin, rtFwd, rtBack, flushes, pc, grid, result,
          surface, assigned>>

\* ---------------------------------------------------------------- bounds
MaxOrder == 3
MaxRot == 2
MaxCells == 2
MaxCols == 20

\* -------------------------------------------------------------- constants
STACK_WIDTH == 25
INPUT_WIDTH == 40

Names == {"A", "B", "C"}
Messages == {"resize", "rotate", "rotate-back", "rotate-right", "quit"}
Terminals == {<<24, 80>>, <<40, 100>>}
Values == {"holi", "x"}
Producers == {"rows", "cols", "f1"}
\* the windows a caller declares: name, geometry closure, options
Declared == {<<"A", "Menu", <<"NOBOXED", "NOTITLED">>>>,
             <<"B", "Stack", <<>>>>,
             <<"C", "Stack", <<"CALIGNED">>>>}

BoundedSeq(S, n) == UNION {[1..k -> S] : k \in 0..n}

\* the geometry closures handed to addWindow by initWindows
getDims(func, t) ==
    CASE func = "Menu"   -> <<1, t[2], 0, 0>>
      [] func = "Stack"  -> <<t[1] - 2, STACK_WIDTH, 1, 0>>
      [] func = "Status" -> <<1, t[2], t[1] - 1, 0>>
      [] func = "Input"  -> <<3, INPUT_WIDTH, 1, STACK_WIDTH>>
      [] func = "Result" -> <<3, t[2] - STACK_WIDTH - INPUT_WIDTH, 1, STACK_WIDTH + INPUT_WIDTH>>
      [] func = "Ops"    -> <<t[1] - 5, INPUT_WIDTH, 4, STACK_WIDTH>>
      [] func = "Vars"   -> <<t[1] - 5, t[2] - STACK_WIDTH - INPUT_WIDTH, 4, STACK_WIDTH + INPUT_WIDTH>>

\* std::string::size() of the names and values used
strlen(s) ==
    CASE s = "" -> 0
      [] s \in {"A", "B", "C", "x"} -> 1
      [] s = "Ops" -> 3
      [] s \in {"Menu", "Vars", "holi"} -> 4
      [] s \in {"Stack", "Input"} -> 5
      [] s \in {"Status", "Result"} -> 6
      [] s = "Calculator" -> 10

\* ------------------------------------------------------------------- Item
\* Item() = default
Item == [value |-> "", dynValue |-> "none", dynamic |-> FALSE, enabled |-> FALSE]

\* std::format("{}", n) of the numbers a producer prints
format(n) ==
    CASE n = -1 -> "-1" [] n = 1 -> "1" [] n = 4 -> "4" [] n = 15 -> "15"
      [] n = 19 -> "19" [] n = 24 -> "24" [] n = 35 -> "35" [] n = 40 -> "40"
      [] n = 65 -> "65" [] n = 80 -> "80" [] n = 100 -> "100"

\* a producer (std::function<std::string()>) run against the terminal t
call(func, t) ==
    CASE func = "rows" -> format(t[1])
      [] func = "cols" -> format(t[2])
      [] func = "f1" ->
            LET m == getDims("Vars", t)
            IN  "([" \o format(m[3]) \o " , " \o format(m[4]) \o "], ["
                \o format(m[1]) \o ", " \o format(m[2]) \o "]) "
                \o format(-1) \o " " \o format(1)

\* Item::value() const
value(item, t) == IF item.dynamic THEN call(item.dynValue, t) ELSE item.value

\* mutant of valueStatic: _dynamic is left as it was
valueStaticStillDynamic(item, v) == [item EXCEPT !.value = v, !.enabled = TRUE]

\* Item::value(std::string) / Item::value(std::function<std::string()>)
valueStatic(item, v) == [item EXCEPT !.value = v, !.dynamic = FALSE, !.enabled = TRUE]
valueDynamic(item, func) ==
    [item EXCEPT !.dynValue = func, !.dynamic = TRUE, !.enabled = TRUE]

\* Item::enable / Item::disable
enable(item) == [item EXCEPT !.enabled = TRUE]
disable(item) == [item EXCEPT !.enabled = FALSE]

\* ---------------------------------------------------------------- Content
\* Content() = default
Content == [rows |-> -1, cols |-> 1, rptr |-> 0, cptr |-> 0, content |-> <<>>]

\* Content::size
size(c) == <<c.rows, c.cols>>

\* Content::allocateNew (_rptr counts from 0)
allocateNew(c) ==
    LET c1 == IF c.content = <<>> THEN [c EXCEPT !.content = <<<<>>>>] ELSE c
    IN  IF c1.content[c1.rptr + 1] = <<>>
        THEN [c1 EXCEPT !.content[c1.rptr + 1] = <<Item>>]
        ELSE c1

\* mutant of add: the new cell is given the value
addStoring(c, v) ==
    LET c1 == allocateNew(c)
    IN  [c1 EXCEPT !.content[c1.rptr + 1][c1.cptr + 1] =
             IF v \in Producers THEN valueDynamic(@, v) ELSE valueStatic(@, v)]

\* Content::add(std::string) / Content::add(std::function<std::string()>)
add(c, v) == allocateNew(c)

\* Content::print : reads the four coordinates and writes nothing
print(c, coords) == {}

\* ------------------------------------------------------------------ Window
\* a cleared surface: no border, nothing written on row 0, no cell text
Blank == [box |-> FALSE, title |-> {}, cells |-> {}]

\* Window() {} : no name, empty _getDims, _win left uninitialized
DefaultWindow ==
    [name |-> "", getDims |-> "none",
     win |-> [valid |-> FALSE, dims |-> <<0, 0, 0, 0>>, out |-> Blank],
     title_align |-> "left", boxed |-> TRUE, selected |-> FALSE,
     titled |-> TRUE, content |-> Content]

getmaxy(w) == w.win.dims[1]
getmaxx(w) == w.win.dims[2]

\* Window::getCoords
getCoords(w) ==
    IF w.boxed THEN <<getmaxy(w) - 2, getmaxx(w) - 2, 1, 1>>
    ELSE <<getmaxy(w), getmaxx(w), 0, 0>>

\* Window::drawBox : box() rewrites the four edges, row 0 included
drawBox(w) ==
    IF ~w.boxed THEN w
    ELSE [w EXCEPT !.win.out.box = TRUE, !.win.out.title = {}]

\* mutant of startx: a right-aligned title ends at the last column
startxRightEdge(align, width, length) ==
    CASE align = "left" -> 2
      [] align = "center" -> (width - length) \div 2
      [] align = "right" -> width - length

\* startx of Window::putTitle.  getmaxx(_win) - title.size() is computed in
\* size_t and stored in an int: a negative difference d wraps to 2^64 + d,
\* and (2^64 + d) / 2 truncated to 32 bits is -ceil(-d / 2)
startx(align, width, length) ==
    LET left   == IF align = "left" THEN 2 ELSE 0
        center == IF align = "center"
                  THEN IF width >= length THEN (width - length) \div 2
                       ELSE 0 - ((length - width + 1) \div 2)
                  ELSE left
    IN  IF align = "right" THEN width - length - 2 ELSE center

\* Window::putTitle : mvwprintw fails, writing nothing, outside 0 .. maxx
putTitle(w) ==
    LET title == <<" ", w.name, " ">>
        x == startx(w.title_align, getmaxx(w), strlen(w.name) + 2)
    IN  IF ~w.titled \/ x < 0 \/ x >= getmaxx(w) THEN w
        ELSE [w EXCEPT !.win.out.title =
                  {e \in @ : e.col # x}
                  \cup {[col |-> x, text |-> title, reverse |-> w.selected]}]

\* Window::draw : drawBox, putTitle, _content.print, refresh.  Through an
\* uninitialized WINDOW* nothing is drawn (the calls that get through fail)
draw(w) ==
    IF ~w.win.valid THEN w
    ELSE LET t == putTitle(drawBox(w))
         IN  [t EXCEPT !.win.out.cells = @ \cup print(t.content, getCoords(t))]

\* Window(name, func) : newwin(d[0], d[1], d[2], d[3]); draw()
Window(name, func, t) ==
    draw([DefaultWindow EXCEPT
              !.name = name, !.getDims = func,
              !.win = [valid |-> TRUE, dims |-> getDims(func, t), out |-> Blank]])

\* mvwin(_win, y, x) : refused when the window, at its present size, would
\* not lie within the screen
mvwin(w, y, x, t) ==
    IF y < 0 \/ x < 0 \/ y + getmaxy(w) > t[1] \/ x + getmaxx(w) > t[2] THEN w
    ELSE [w EXCEPT !.win.dims[3] = y, !.win.dims[4] = x]

\* wresize(_win, h, wd)
wresize(w, h, wd) == [w EXCEPT !.win.dims[1] = h, !.win.dims[2] = wd]

\* mutant of resize: draw() moved before wresize
resizeDrawFirst(w, t) ==
    LET d == getDims(w.getDims, t)
        cleared == [w EXCEPT !.win.out = Blank]
    IN  wresize(draw(mvwin(cleared, d[3], d[4], t)), d[1], d[2])

\* Window::resize : getDims; wclear; mvwin; wresize; draw
resize(w, t) ==
    LET d == getDims(w.getDims, t)
        cleared == [w EXCEPT !.win.out = Blank]
    IN  draw(wresize(mvwin(cleared, d[3], d[4], t), d[1], d[2]))

\* Window::setOption : the switch, then resize()
setOption(w, opt, t) ==
    resize(CASE opt = "BOXED"    -> [w EXCEPT !.boxed = TRUE]
             [] opt = "NOBOXED"  -> [w EXCEPT !.boxed = FALSE]
             [] opt = "TITLED"   -> [w EXCEPT !.titled = TRUE]
             [] opt = "NOTITLED" -> [w EXCEPT !.titled = FALSE]
             [] opt = "LALIGNED" -> [w EXCEPT !.title_align = "left"]
             [] opt = "CALIGNED" -> [w EXCEPT !.title_align = "center"]
             [] opt = "RALIGNED" -> [w EXCEPT !.title_align = "right"], t)

\* (..., windows()[name].setOption(opts)) : left to right
RECURSIVE applyOptions(_, _, _)
applyOptions(w, opts, t) ==
    IF opts = <<>> THEN w
    ELSE applyOptions(setOption(w, Head(opts), t), Tail(opts), t)

\* Window::contentSize
contentSize(w) == size(w.content)

\* Window::contentAdd : _content.add(value); resize()
contentAdd(w, v, t) == resize([w EXCEPT !.content = add(@, v)], t)

\* what resizeterm(), run by getch() before it returns KEY_RESIZE, does to a
\* window when the screen goes from cur to to: a window as tall or as wide
\* as the old screen follows it, and no window stays larger than the new one
adjust_window(w, cur, to) ==
    LET h0 == IF getmaxy(w) = cur[1] /\ to[1] # cur[1] THEN to[1] ELSE getmaxy(w)
        h1 == IF h0 > to[1] THEN to[1] ELSE h0
        w0 == IF getmaxx(w) > to[2] THEN to[2] ELSE getmaxx(w)
        w1 == IF w0 = cur[2] /\ to[2] # cur[2] THEN to[2] ELSE w0
    IN  IF ~w.win.valid THEN w ELSE wresize(w, h1, w1)

\* Window::markSelected / Window::unmarkSelected
markSelected(w) == draw([w EXCEPT !.selected = TRUE])
unmarkSelected(w) == draw([w EXCEPT !.selected = FALSE])

\* ----------------------------------------------------------------- Windows
\* Windows::operator[] (non-const): unordered_map::operator[] inserts a
\* default-constructed Window for an absent key
index(ws, name) ==
    IF name \in DOMAIN ws THEN ws ELSE (name :> DefaultWindow) @@ ws

\* the loop of updateMarkedWindow, from position i
RECURSIVE unmarkRest(_, _, _)
unmarkRest(ws, o, i) ==
    IF i > Len(o) THEN ws
    ELSE unmarkRest([index(ws, o[i]) EXCEPT ![o[i]] = unmarkSelected(@)], o, i + 1)

updateMarkedWindow(ws, o) ==
    IF Len(o) = 0 THEN ws
    ELSE unmarkRest([index(ws, o[1]) EXCEPT ![o[1]] = markSelected(@)], o, 2)

\* updateMarkedWindow draws through an uninitialized WINDOW* when a name of
\* the order is absent from the map or maps to a default-constructed Window
drawsUninit(ws, o) ==
    \E i \in 1..Len(o) : o[i] \notin DOMAIN ws \/ ~ws[o[i]].win.valid

\* std::rotate(first, first + k, last) on a range with at least k elements
rotate(s, k) == SubSeq(s, k + 1, Len(s)) \o SubSeq(s, 1, k)

\* the range seen through rbegin() .. rend()
Reverse(s) == [i \in 1..Len(s) |-> s[Len(s) + 1 - i]]

rotateRightSelectedWindow(o) == Reverse(rotate(Reverse(o), 1))

\* mutants of rotateLeftSelectedWindow: the body of rotateRightSelectedWindow
\* pasted unchanged; middle = begin() + 2
rotateLeftAsRight(o) == Reverse(rotate(Reverse(o), 1))
rotateLeftJump(o) == IF Len(o) < 2 THEN o ELSE rotate(o, 2)

rotateLeftSelectedWindow(o) == rotate(o, 1)

\* the two ifs of rotateSelectedWindow, before updateMarkedWindow
rotateSelectedWindow(direction, o) ==
    LET o1 == IF direction = "right" THEN rotateRightSelectedWindow(o) ELSE o
    IN  IF direction = "left" THEN rotateLeftSelectedWindow(o1) ELSE o1

\* mutant of dispatch: the last if written as a plain else
dispatchElse(message) ==
    [resize |-> message = "resize",
     right  |-> message = "rotate",
     left   |-> message \notin {"resize", "rotate"}]

\* the three ifs of Windows::notify: the handler a message reaches
dispatch(message) ==
    [resize |-> message = "resize",
     right  |-> message = "rotate",
     left   |-> message = "rotate-back"]

windowsOrderSet(o, order) == order

\* mutant of windowsOrderPush: insert at begin() instead of push_back
windowsOrderPushFront(o, name) == <<name>> \o o

windowsOrderPush(o, name) == Append(o, name)

\* ------------------------------------------------------- history variables
NoRun == <<<<>>, 0, 0>>

\* the run of rotations after a "rotate" event delivered in order o
runAfterForward(o) ==
    IF rtBack = 0 /\ rtFwd > 0 /\ rtFwd < MaxRot
    THEN <<rtOrigin, rtFwd + 1, 0>>
    ELSE <<o, 1, 0>>

runAfterBackward ==
    IF rtFwd > rtBack THEN <<rtOrigin, rtFwd, rtBack + 1>> ELSE NoRun

SetRun(r) == /\ rtOrigin' = r[1]
             /\ rtFwd' = r[2]
             /\ rtBack' = r[3]

\* the process dies inside the call: nothing of it is observable afterwards
Crash(op) ==
    /\ crashed' = TRUE
    /\ lastOp' = op
    /\ redrawn' = {}
    /\ SetRun(NoRun)
    /\ UNCHANGED <<windows, windowsOrder, term>>

\* ------------------------------------------------------------------ actions
Init ==
    /\ windows = <<>>
    /\ windowsOrder = <<>>
    /\ term \in Terminals
    /\ crashed = FALSE
    /\ lastOp = <<"init", "">>
    /\ redrawn = {}
    /\ rtOrigin = <<>>
    /\ rtFwd = 0
    /\ rtBack = 0
    /\ flushes = <<>>
    /\ pc = <<"api", "">>
    /\ grid = Content
    /\ result = ""
    /\ surface = {}
    /\ assigned = <<>>

\* App::addWindow(name, func, opts...)
addWindow(name, func, opts) ==
    /\ ~crashed
    /\ windows' = [index(windows, name) EXCEPT
                       ![name] = applyOptions(Window(name, func, term), opts, term)]
    /\ windowsOrder' = windowsOrderPush(windowsOrder, name)
    /\ lastOp' = <<"addWindow", name>>
    /\ redrawn' = {name}
    /\ SetRun(NoRun)
    /\ UNCHANGED <<term, crashed>>

\* App::setWindowsOrder(order) -> Windows::windowsOrder(vector)
setWindowsOrder(order) ==
    /\ ~crashed
    /\ windowsOrder' = windowsOrderSet(windowsOrder, order)
    /\ lastOp' = <<"setWindowsOrder", "">>
    /\ redrawn' = {}
    /\ SetRun(NoRun)
    /\ UNCHANGED <<windows, term, crashed>>

\* Windows::windowsOrder(name)
windowsOrder_push(name) ==
    /\ ~crashed
    /\ Len(windowsOrder) < MaxOrder
    /\ windowsOrder' = windowsOrderPush(windowsOrder, name)
    /\ lastOp' = <<"windowsOrder", "">>
    /\ redrawn' = {}
    /\ SetRun(NoRun)
    /\ UNCHANGED <<windows, term, crashed>>

\* App::window(name) -> Windows::operator[]
window(name) ==
    /\ ~crashed
    /\ windows' = index(windows, name)
    /\ lastOp' = <<"window", "">>
    /\ redrawn' = {}
    /\ SetRun(NoRun)
    /\ UNCHANGED <<windowsOrder, term, crashed>>

\* Windows::resizeAllWindows: Window::resize of a default-constructed Window
\* calls an empty std::function (std::bad_function_call, never caught)
resizeAllWindows(op, t) ==
    IF \E n \in DOMAIN windows : windows[n].getDims = "none"
    THEN Crash(op)
    ELSE /\ windows' = [n \in DOMAIN windows |->
                            resize(adjust_window(windows[n], term, t), t)]
         /\ term' = t
         /\ redrawn' = DOMAIN windows
         /\ lastOp' = op
         /\ SetRun(NoRun)
         /\ UNCHANGED <<windowsOrder, crashed>>

\* rotateSelectedWindow(direction) completing: rotation, then updateMarkedWindow
Rotated(message, direction, run) ==
    LET o == rotateSelectedWindow(direction, windowsOrder)
    IN  /\ windowsOrder' = o
        /\ windows' = updateMarkedWindow(windows, o)
        /\ redrawn' = {o[i] : i \in 1..Len(o)}
        /\ lastOp' = <<"notify", message>>
        /\ SetRun(run)
        /\ UNCHANGED <<term, crashed>>

\* Windows::rotateSelectedWindow(direction).  std::rotate with middle = begin + 1
\* on an empty vector, and ncurses calls on an uninitialized WINDOW*, are
\* undefined: the call either gets through or kills the process.
rotateSelectedWindowStep(message, direction, run) ==
    IF windowsOrder = <<>>
    THEN \/ Crash(<<"notify", message>>)
         \/ /\ lastOp' = <<"notify", message>>
            /\ redrawn' = {}
            /\ SetRun(run)
            /\ UNCHANGED <<windows, windowsOrder, term, crashed>>
    ELSE IF drawsUninit(windows, windowsOrder)
    THEN \/ Crash(<<"notify", message>>)
         \/ Rotated(message, direction, run)
    ELSE Rotated(message, direction, run)

\* Windows::notify(message)
notify(message) ==
    /\ ~crashed
    /\ LET d == dispatch(message)
       IN  IF d.resize THEN resizeAllWindows(<<"notify", message>>, term)
           ELSE IF d.right
           THEN rotateSelectedWindowStep(message, "right", runAfterForward(windowsOrder))
           ELSE IF d.left
           THEN rotateSelectedWindowStep(message, "left", runAfterBackward)
           ELSE /\ lastOp' = <<"notify", message>>
                /\ redrawn' = {}
                /\ SetRun(NoRun)
                /\ UNCHANGED <<windows, windowsOrder, term, crashed>>

\* App::run, c == KEY_RESIZE: getch() has adopted the new terminal size t
\* for stdscr, and the loop body delivers notify("resize")
keyResize(t) ==
    /\ ~crashed
    /\ t # term
    /\ dispatch("resize").resize
    /\ resizeAllWindows(<<"key", "KEY_RESIZE">>, t)

\* what the registry operations leave alone
others == <<flushes, pc, grid, result, surface, assigned>>

Next ==
    \/ \E d \in Declared :
           /\ Len(windowsOrder) < MaxOrder
           /\ addWindow(d[1], d[2], d[3])
           /\ UNCHANGED others
    \/ \E order \in BoundedSeq(Names, MaxOrder) :
           setWindowsOrder(order) /\ UNCHANGED others
    \/ \E name \in Names : windowsOrder_push(name) /\ UNCHANGED others
    \/ \E name \in Names : window(name) /\ UNCHANGED others
    \/ \E message \in Messages : notify(message) /\ UNCHANGED others
    \/ \E t \in Terminals : keyResize(t) /\ UNCHANGED others

Spec == Init /\ [][Next]_vars

\* insertions, appendFocusOrder and notify events only
NextInsertAppendNotify ==
    \/ \E d \in Declared :
           /\ Len(windowsOrder) < MaxOrder
           /\ addWindow(d[1], d[2], d[3])
           /\ UNCHANGED others
    \/ \E name \in Names : windowsOrder_push(name) /\ UNCHANGED others
    \/ \E message \in Messages : notify(message) /\ UNCHANGED others

SpecInsertAppendNotify == Init /\ [][NextInsertAppendNotify]_vars

\* --------------------------------------------------- one Window, by itself
\* the windows a caller declares, here one at a time
WindowDeclared == {<<n, n>> : n \in {"Menu", "Status", "Stack", "Input", "Result", "Ops", "Vars"}}
WinOpt == {"BOXED", "NOBOXED", "TITLED", "NOTITLED", "LALIGNED", "CALIGNED", "RALIGNED"}

\* the registry after one addWindow(name, func)
WindowInit ==
    /\ term \in Terminals
    /\ \E d \in WindowDeclared :
           /\ windows = (d[1] :> Window(d[1], d[2], term))
           /\ windowsOrder = <<d[1]>>
           /\ lastOp = <<"addWindow", d[1]>>
           /\ redrawn = {d[1]}
    /\ crashed = FALSE
    /\ rtOrigin = <<>>
    /\ rtFwd = 0
    /\ rtBack = 0
    /\ flushes = <<>>
    /\ pc = <<"api", "">>
    /\ grid = Content
    /\ result = ""
    /\ surface = {}
    /\ assigned = <<>>

\* a call of a method of window(n) that leaves the rest alone
WindowCall(n, w, op) ==
    /\ ~crashed
    /\ windows' = [windows EXCEPT ![n] = w]
    /\ lastOp' = op
    /\ redrawn' = {n}
    /\ SetRun(NoRun)
    /\ UNCHANGED <<windowsOrder, term, crashed, others>>

\* window(n).setOption(opt)
window_setOption(n, opt) ==
    WindowCall(n, setOption(windows[n], opt, term), <<"setOption", n>>)

\* window(n).resize(); a call that directly follows another is told apart
window_resize(n) ==
    WindowCall(n, resize(windows[n], term),
               IF lastOp \in {<<"resize", n>>, <<"resize-again", n>>}
               THEN <<"resize-again", n>> ELSE <<"resize", n>>)

\* window(n).markSelected() / window(n).unmarkSelected()
window_markSelected(n) ==
    WindowCall(n, markSelected(windows[n]), <<"markSelected", n>>)

window_unmarkSelected(n) ==
    WindowCall(n, unmarkSelected(windows[n]), <<"unmarkSelected", n>>)

\* window(n).contentAdd(v)
window_contentAdd(n, v) ==
    WindowCall(n, contentAdd(windows[n], v, term), <<"contentAdd", n>>)

\* getch() returns KEY_RESIZE: the screen has become t
getchResize(t) ==
    /\ ~crashed
    /\ t # term
    /\ term' = t
    /\ windows' = [n \in DOMAIN windows |-> adjust_window(windows[n], term, t)]
    /\ lastOp' = <<"key", "KEY_RESIZE">>
    /\ redrawn' = {}
    /\ SetRun(NoRun)
    /\ UNCHANGED <<windowsOrder, crashed, others>>

WindowNext ==
    \/ \E n \in DOMAIN windows, opt \in WinOpt : window_setOption(n, opt)
    \/ \E n \in DOMAIN windows : window_resize(n)
    \/ \E n \in DOMAIN windows : window_markSelected(n)
    \/ \E n \in DOMAIN windows : window_unmarkSelected(n)
    \/ \E n \in DOMAIN windows, v \in Values \cup Producers : window_contentAdd(n, v)
    \/ \E t \in Terminals : getchResize(t)

SpecWindow == WindowInit /\ [][WindowNext]_vars

\* ------------------------------------------- one Window on a narrow screen
\* names of several lengths, each on a window as wide as the screen
Titles == {"A", "Stack", "Calculator"}

TitleInit ==
    /\ term \in {<<24, k>> : k \in 1..MaxCols}
    /\ \E name \in Titles :
           /\ windows = (name :> Window(name, "Menu", term))
           /\ windowsOrder = <<name>>
           /\ lastOp = <<"addWindow", name>>
           /\ redrawn = {name}
    /\ crashed = FALSE
    /\ rtOrigin = <<>>
    /\ rtFwd = 0
    /\ rtBack = 0
    /\ flushes = <<>>
    /\ pc = <<"api", "">>
    /\ grid = Content
    /\ result = ""
    /\ surface = {}
    /\ assigned = <<>>

TitleNext ==
    \/ \E n \in DOMAIN windows, opt \in WinOpt : window_setOption(n, opt)
    \/ \E n \in DOMAIN windows : window_resize(n)
    \/ \E n \in DOMAIN windows : window_markSelected(n)
    \/ \E n \in DOMAIN windows : window_unmarkSelected(n)

SpecTitle == TitleInit /\ [][TitleNext]_vars

\* -------------------------------------------------- one Content, by itself
\* the values and producers handed to replace
Replaced == {"x", "cols"}
Rows == 0..1
Cols == 0..MaxCells

\* row and col are existing indices of _content
Valid(c, row, col) ==
    /\ row + 1 \in DOMAIN c.content
    /\ col + 1 \in DOMAIN c.content[row + 1]

\* Content::replace on existing indices: _content[row][col].value(v)
replace(c, row, col, v) ==
    [c EXCEPT !.content[row + 1][col + 1] =
         IF v \in Producers THEN valueDynamic(@, v) ELSE valueStatic(@, v)]

\* a call on the Content that leaves everything but the grid alone
ContentCall(c, op, res) ==
    /\ ~crashed
    /\ grid' = c
    /\ lastOp' = op
    /\ result' = res
    /\ UNCHANGED <<windows, windowsOrder, term, crashed, redrawn,
                   rtOrigin, rtFwd, rtBack, flushes, pc, surface, assigned>>

\* grid.add(v)
content_add(v) == ContentCall(add(grid, v), <<"add", v>>, "")

\* grid[row].push_back(Item()) through Content::operator[]
content_push_back(row) ==
    /\ row + 1 \in DOMAIN grid.content
    /\ Len(grid.content[row + 1]) < MaxCells
    /\ ContentCall([grid EXCEPT !.content[row + 1] = Append(@, Item)],
                   <<"push_back", row>>, "")

\* grid.replace(row, col, v).  With indices outside the vectors the unchecked
\* operator[] is undefined behaviour: the store lands outside the grid, and
\* the process is killed or goes on; no exception is thrown either way
content_replace(row, col, v) ==
    /\ ~crashed
    /\ lastOp' = <<"replace", row, col, v>>
    /\ result' = ""
    /\ IF Valid(grid, row, col)
       THEN /\ grid' = replace(grid, row, col, v)
            /\ assigned' = (<<row, col>> :> v) @@ assigned
            /\ UNCHANGED crashed
       ELSE /\ crashed' \in BOOLEAN
            /\ UNCHANGED <<grid, assigned>>
    /\ UNCHANGED <<windows, windowsOrder, term, redrawn,
                   rtOrigin, rtFwd, rtBack, flushes, pc, surface>>

\* grid[row][col].value()
content_value(row, col) ==
    /\ Valid(grid, row, col)
    /\ ContentCall(grid, <<"value", row, col>>, value(grid.content[row + 1][col + 1], term))

\* grid[row][col].disable() / grid[row][col].enable()
content_disable(row, col) ==
    /\ Valid(grid, row, col)
    /\ ContentCall([grid EXCEPT !.content[row + 1][col + 1] = disable(@)],
                   <<"disable", row, col>>, "")

content_enable(row, col) ==
    /\ Valid(grid, row, col)
    /\ ContentCall([grid EXCEPT !.content[row + 1][col + 1] = enable(@)],
                   <<"enable", row, col>>, "")

\* grid.print(win, coords) on a surface that was cleared before
content_print ==
    /\ ~crashed
    /\ surface' = print(grid, <<term[1], term[2], 0, 0>>)
    /\ lastOp' = <<"print">>
    /\ result' = ""
    /\ UNCHANGED <<windows, windowsOrder, term, crashed, redrawn,
                   rtOrigin, rtFwd, rtBack, flushes, pc, grid, assigned>>

\* the terminal, which the producers read, becomes t
screen(t) ==
    /\ ~crashed
    /\ t # term
    /\ term' = t
    /\ lastOp' = <<"screen">>
    /\ UNCHANGED <<windows, windowsOrder, crashed, redrawn,
                   rtOrigin, rtFwd, rtBack, others>>

ContentNext ==
    \/ \E v \in Values \cup Producers : content_add(v)
    \/ \E row \in Rows : content_push_back(row)
    \/ \E row \in Rows, col \in Cols, v \in Replaced : content_replace(row, col, v)
    \/ \E row \in Rows, col \in Cols : content_value(row, col)
    \/ \E row \in Rows, col \in Cols : content_disable(row, col)
    \/ \E row \in Rows, col \in Cols : content_enable(row, col)
    \/ content_print
    \/ \E t \in Terminals : screen(t)

SpecContent == Init /\ [][ContentNext]_vars

\* ------------------------------------------------------------------ main
\* the addWindow calls of initWindows, in order
initWindowsCalls ==
    << <<"Menu",   "Menu",   <<"NOBOXED", "NOTITLED">>>>,
       <<"Status", "Status", <<"NOBOXED", "NOTITLED">>>>,
       <<"Stack",  "Stack",  <<>>>>,
       <<"Input",  "Input",  <<>>>>,
       <<"Result", "Result", <<>>>>,
       <<"Ops",    "Ops",    <<>>>>,
       <<"Vars",   "Vars",   <<>>>> >>

\* the argument of setWindowsOrder in initWindows
initWindowsOrder == <<"Stack", "Ops", "Vars", "Result", "Input">>

\* what getch() can return
Keys == {"q", "KEY_RESIZE", "\t", "KEY_BTAB", "a", "KEY_UP"}

\* mutant of keyMessage: every other key rotates
keyMessageElse(c) ==
    CASE c = "KEY_RESIZE" -> "resize"
      [] c = "KEY_BTAB" -> "rotate-back"
      [] OTHER -> "rotate"

\* App::run : the message the loop body sends for the key c
keyMessage(c) ==
    CASE c = "KEY_RESIZE" -> "resize"
      [] c = "\t" -> "rotate"
      [] c = "KEY_BTAB" -> "rotate-back"
      [] OTHER -> "none"

\* calc::App app; : an empty registry
AppInit ==
    /\ term \in Terminals
    /\ windows = <<>>
    /\ windowsOrder = <<>>
    /\ crashed = FALSE
    /\ lastOp = <<"init", "">>
    /\ redrawn = {}
    /\ rtOrigin = <<>>
    /\ rtFwd = 0
    /\ rtBack = 0
    /\ flushes = <<>>
    /\ pc = <<"initWindows", "">>
    /\ grid = Content
    /\ result = ""
    /\ surface = {}
    /\ assigned = <<>>

rest == <<flushes, grid, result, surface, assigned>>

\* initWindows: the next app.addWindow(...)
main_addWindow ==
    /\ pc[1] = "initWindows"
    /\ Len(windowsOrder) < Len(initWindowsCalls)
    /\ LET d == initWindowsCalls[Len(windowsOrder) + 1]
       IN  addWindow(d[1], d[2], d[3])
    /\ UNCHANGED <<pc, rest>>

\* initWindows: app.setWindowsOrder({...})
main_setWindowsOrder ==
    /\ pc[1] = "initWindows"
    /\ Len(windowsOrder) = Len(initWindowsCalls)
    /\ setWindowsOrder(initWindowsOrder)
    /\ pc' = <<"initContent", "">>
    /\ UNCHANGED rest

\* initContent
initContent ==
    /\ pc[1] = "initContent"
    /\ ~crashed
    /\ LET ws == index(index(windows, "Vars"), "Status")
       IN  windows' = [ws EXCEPT !["Vars"] = contentAdd(@, "holi", term),
                                 !["Status"] = contentAdd(@, "f1", term)]
    /\ lastOp' = <<"initContent", "">>
    /\ redrawn' = {"Vars", "Status"}
    /\ SetRun(NoRun)
    /\ pc' = <<"run", "">>
    /\ UNCHANGED <<windowsOrder, term, crashed, rest>>

\* App::run, before the loop: _windows.notify("rotate")
run ==
    /\ pc[1] = "run"
    /\ notify("rotate")
    /\ pc' = <<"getch", "">>
    /\ UNCHANGED rest

\* App::run, one turn of the loop: c = getch(), on a screen that is t when
\* c is KEY_RESIZE; 'q' leaves the loop, main returns
getch(c, t) ==
    /\ pc[1] = "getch"
    /\ ~crashed
    /\ pc' = <<IF c = "q" THEN "done" ELSE "getch", c>>
    /\ IF c = "q" \/ keyMessage(c) = "none"
       THEN /\ lastOp' = <<"key", c>>
            /\ redrawn' = {}
            /\ SetRun(NoRun)
            /\ UNCHANGED <<windows, windowsOrder, term, crashed>>
       ELSE IF c = "KEY_RESIZE"
       THEN /\ t # term
            /\ dispatch(keyMessage(c)).resize
            /\ resizeAllWindows(<<"key", c>>, t)
       ELSE notify(keyMessage(c))
    /\ UNCHANGED rest

AppNext ==
    \/ main_addWindow
    \/ main_setWindowsOrder
    \/ initContent
    \/ run
    \/ \E c \in Keys, t \in Terminals : getch(c, t)

SpecApp == AppInit /\ [][AppNext]_vars

\* ------------------------------------------------------------ the screen
\* the windows whose title stands in reverse video.  Every change of a
\* surface ends in draw(), whose refresh() copies it to the virtual screen,
\* so this is what a doupdate() puts on the terminal
shownSelected(ws) ==
    {n \in DOMAIN ws : \E e \in ws[n].win.out.title : e.reverse}

\* the doupdate() calls of updateMarkedWindow on order o: the one at the end
\* of markSelected, made when the head is marked and before the loop runs
doupdatesOfMarking(ws, o) ==
    IF Len(o) = 0 THEN <<>>
    ELSE <<shownSelected([index(ws, o[1]) EXCEPT ![o[1]] = markSelected(@)])>>

\* the registry operations with the doupdate() calls they make
RenderNext ==
    \/ \E d \in Declared :
           /\ Len(windowsOrder) < MaxOrder
           /\ addWindow(d[1], d[2], d[3])
           /\ flushes' = <<shownSelected(windows')>>
           /\ UNCHANGED <<pc, grid, result, surface, assigned>>
    \/ \E order \in BoundedSeq(Names, MaxOrder) :
           /\ setWindowsOrder(order)
           /\ flushes' = <<>>
           /\ UNCHANGED <<pc, grid, result, surface, assigned>>
    \/ \E message \in Messages :
           /\ notify(message)
           /\ flushes' = IF crashed' \/ ~(dispatch(message).right \/ dispatch(message).left)
                          THEN <<>>
                          ELSE doupdatesOfMarking(windows, windowsOrder')
           /\ UNCHANGED <<pc, grid, result, surface, assigned>>

SpecRender == Init /\ [][RenderNext]_vars

\* ------------------------------------------------------------- properties
Selected == {n \in DOMAIN windows : windows[n].selected}
OrderNames == {windowsOrder[i] : i \in 1..Len(windowsOrder)}
Count(o, n) == Cardinality({i \in 1..Len(o) : o[i] = n})
RotateEvents == {"rotate", "rotate-back"}
KnownEvents == {"resize", "rotate", "rotate-back"}

\* C1: whenever the focus order is non-empty, exactly one Window of the
\* registry has selected = true, and it is the one named by the head of the
\* focus order.
C1_ExactlyHeadSelected ==
    (~crashed /\ windowsOrder # <<>>) => Selected = {windowsOrder[1]}

\* C2: n "rotate" events followed by n "rotate-back" events leave the focus
\* order equal to the order before the first of them.
C2_RotationInvertible ==
    (~crashed /\ rtFwd > 0 /\ rtBack = rtFwd) => windowsOrder = rtOrigin

C2_Witness ==
    /\ ~crashed
    /\ rtFwd = MaxRot
    /\ rtBack = MaxRot
    /\ Cardinality(OrderNames) = 3

\* every name of the focus order is the key of a constructed Window
OrderRegistered ==
    \A n \in OrderNames : n \in DOMAIN windows /\ windows[n].win.valid

\* C3: one "rotate" event moves the last element of the focus order to the
\* front, shifts the others one position back, and leaves the new head
\* selected and every other window named in the order not selected (stated
\* for focus orders that name registered windows only).
C3_RotateForward ==
    [][(/\ lastOp' = <<"notify", "rotate">>
        /\ ~crashed'
        /\ windowsOrder # <<>>
        /\ OrderRegistered)
        => /\ windowsOrder' = <<windowsOrder[Len(windowsOrder)]>>
                                \o SubSeq(windowsOrder, 1, Len(windowsOrder) - 1)
           /\ LET head == windowsOrder'[1]
              IN  /\ head \in DOMAIN windows'
                  /\ windows'[head].selected
                  /\ \A i \in 1..Len(windowsOrder') :
                         windowsOrder'[i] # head =>
                             /\ windowsOrder'[i] \in DOMAIN windows'
                             /\ ~windows'[windowsOrder'[i]].selected]_vars

\* C4: one "rotate-back" event moves the first element of the focus order to
\* the back and every other element exactly one position to the front; the
\* names of the order and their multiplicities are unchanged.
C4_RotateBackward ==
    [][(lastOp' = <<"notify", "rotate-back">> /\ ~crashed')
        => /\ Len(windowsOrder') = Len(windowsOrder)
           /\ \A i \in 1..Len(windowsOrder) :
                  windowsOrder'[i] = windowsOrder[(i % Len(windowsOrder)) + 1]
           /\ \A n \in Names : Count(windowsOrder', n) = Count(windowsOrder, n)]_vars

C4_Witness ==
    /\ ~crashed
    /\ lastOp = <<"notify", "rotate-back">>
    /\ Cardinality(OrderNames) = 3

\* C5: inserting a window whose name is already a key of the registry leaves
\* the registry unchanged: the existing Window is not replaced and the focus
\* order is not modified.
C5_DuplicateInsertRejected ==
    [][(lastOp'[1] = "addWindow" /\ lastOp'[2] \in DOMAIN windows)
        => (windows' = windows /\ windowsOrder' = windowsOrder)]_vars

\* C6 as claimed: inserting a window does not change the focus order.
C6_InsertKeepsOrder ==
    [][lastOp'[1] = "addWindow" => windowsOrder' = windowsOrder]_vars

\* C6, amended: inserting a window appends its name to the end of the focus
\* order; the elements already in the order keep their positions.
C6_InsertAppendsName ==
    [][lastOp'[1] = "addWindow"
        => windowsOrder' = windowsOrder \o <<lastOp'[2]>>]_vars

C6_Witness ==
    /\ lastOp[1] = "addWindow"
    /\ Len(windowsOrder) >= 2
    /\ windowsOrder[Len(windowsOrder)] = lastOp[2]
    /\ windowsOrder[1] # lastOp[2]

\* C7: after any sequence of insertions, appendFocusOrder calls and rotation
\* events, the focus order contains no name more than once.
C7_NoDuplicateNames ==
    \A i, j \in 1..Len(windowsOrder) :
        i # j => windowsOrder[i] # windowsOrder[j]

\* C8: looking up window(name) for a name that is not a key of the registry
\* does not change the set of registered window names.
C8_LookupKeepsNames ==
    [][lastOp'[1] = "window" => DOMAIN windows' = DOMAIN windows]_vars

\* C9: when the focus order contains a name that is not a key of the
\* registry, a rotation event changes neither the focus order, nor the set
\* of registered windows, nor any window's selected flag.
C9_RotateUnknownAtomic ==
    [][(/\ lastOp'[1] = "notify"
        /\ lastOp'[2] \in RotateEvents
        /\ \E i \in 1..Len(windowsOrder) : windowsOrder[i] \notin DOMAIN windows)
        => (windowsOrder' = windowsOrder /\ windows' = windows)]_vars

\* C10: notify with an event kind other than "resize", "rotate" and
\* "rotate-back" raises no error and changes nothing: focus order, windows
\* (selected and decoration flags, geometry, content) and terminal are as
\* before, and no window is redrawn.
C10_UnknownEventIgnored ==
    [][(lastOp'[1] = "notify" /\ lastOp'[2] \notin KnownEvents)
        => /\ ~crashed'
           /\ windows' = windows
           /\ windowsOrder' = windowsOrder
           /\ term' = term
           /\ redrawn' = {}]_vars

C10_Witness ==
    /\ lastOp[1] = "notify"
    /\ lastOp[2] \notin KnownEvents
    /\ Cardinality(OrderNames) = 3
    /\ Selected # {}
    /\ DOMAIN windows = Names

\* C11: rendering is batched: at every doupdate() at most one window is
\* drawn as selected, that is no flush falls between marking the new head
\* and unmarking the other windows of the same rotation event.
C11_FlushShowsOneSelected ==
    \A i \in 1..Len(flushes) : Cardinality(flushes[i]) <= 1

\* what is on the surface of w and where the surface is
Rendered(w) == <<w.win.dims, w.win.out>>
Flags(w) == <<w.selected, w.boxed, w.titled, w.title_align>>

C16_SizeIsGridSize ==
    \A n \in DOMAIN windows :
        LET c == windows[n].content
        IN  /\ contentSize(windows[n])[1] = Len(c.content)
            /\ c.content # <<>> => contentSize(windows[n])[2] = Len(c.content[1])

\* C19: contentAdd(v) never stores v: after it the grid is one row of one
\* cell, disabled and reading empty, and a contentAdd on a grid that has
\* that cell changes nothing in the grid.
C19_ContentAddStoresNothing ==
    [][\A n \in DOMAIN windows :
          lastOp' = <<"contentAdd", n>> =>
              LET c == windows'[n].content.content
              IN  /\ Len(c) = 1
                  /\ Len(c[1]) = 1
                  /\ ~c[1][1].enabled
                  /\ value(c[1][1], term') = ""
                  /\ windows[n].content.content # <<>>
                         => windows'[n].content = windows[n].content]_vars

C19_Witness ==
    \E n \in DOMAIN windows :
        /\ lastOp = <<"contentAdd", n>>
        /\ Len(windows[n].content.content) = 1
        /\ windows[n].selected

\* C13: reading a disabled cell yields the empty string, whatever was
\* assigned to the cell before it was disabled.
C13_DisabledReadsEmpty ==
    \A row \in Rows, col \in Cols :
        (/\ lastOp = <<"value", row, col>>
         /\ ~grid.content[row + 1][col + 1].enabled) => result = ""

\* what reading a cell must yield on the screen t after v was given to it
Yields(v, t) == IF v \in Producers THEN call(v, t) ELSE v

\* C14: replace(r, c, v) on an existing cell leaves the cell enabled and
\* every other cell as it was; every later read of the cell yields v when v
\* is static, and what the producer returns at the time of the read when v
\* is a producer, also when the cell held a producer or another value before.
C14_ReplaceChangesCell ==
    [][\A row \in Rows, col \in Cols, v \in Replaced :
          (lastOp' = <<"replace", row, col, v>> /\ Valid(grid, row, col)) =>
              /\ grid'.content[row + 1][col + 1].enabled
              /\ \A r \in Rows, c \in Cols :
                     (Valid(grid, r, c) /\ <<r, c>> # <<row, col>>)
                         => grid'.content[r + 1][c + 1] = grid.content[r + 1][c + 1]
              /\ DOMAIN grid'.content = DOMAIN grid.content
              /\ \A r \in DOMAIN grid.content :
                     DOMAIN grid'.content[r] = DOMAIN grid.content[r]]_vars

C14_ReplaceRoundTrip ==
    /\ C14_ReplaceChangesCell
    /\ [](\A row \in Rows, col \in Cols :
             (/\ lastOp = <<"value", row, col>>
              /\ <<row, col>> \in DOMAIN assigned)
                 => result = Yields(assigned[<<row, col>>], term))

C14_Witness ==
    /\ lastOp = <<"value", 0, 1>>
    /\ <<0, 1>> \in DOMAIN assigned
    /\ assigned[<<0, 1>>] = "cols"
    /\ grid.content[1][2].value = "x"
    /\ grid.content[1][2].enabled
    /\ result = "100"

\* C15: replace(row, col, v) with a row or a column that is not an existing
\* index fails with OutOfRange and leaves the grid unchanged.
C15_ReplaceOutOfRange ==
    [][\A row \in Rows, col \in Cols, v \in Replaced :
          (lastOp' = <<"replace", row, col, v>> /\ ~Valid(grid, row, col)) =>
              /\ result' = "OutOfRange"
              /\ ~crashed'
              /\ grid' = grid]_vars

\* the cells a rendering of c must write: the enabled ones, with their values
EnabledCells(c, t) ==
    {[row |-> r, col |-> k, text |-> value(c.content[r][k], t)] :
        <<r, k>> \in {rc \in (1..2) \X (1..MaxCells) :
                         /\ Valid(c, rc[1] - 1, rc[2] - 1)
                         /\ c.content[rc[1]][rc[2]].enabled}}

\* C17: a redraw writes exactly the enabled cells of the grid, each with its
\* current value, and nothing for a disabled cell.
C17_PrintWritesEnabled ==
    lastOp = <<"print">> => surface = EnabledCells(grid, term)

\* the column the title must start at
TitleColumn(align, w, L) ==
    CASE align = "left" -> 2
      [] align = "center" -> (w - L) \div 2
      [] align = "right" -> w - L - 2

\* the texts on row 0 of the surface of w, with their first columns
TitlesOn(w) == {<<e.col, e.text>> : e \in w.win.out.title}

\* C18: a titled window of width w and name s, with L = len(s) + 2 <= w - 2,
\* has the text " " + s + " " on row 0 starting at column 2 (left), at
\* floor((w - L) / 2) (center) or at w - L - 2 (right), and nothing else;
\* an untitled window has no title on its surface.
C18_TitlePlacement ==
    \A n \in DOMAIN windows :
        LET w == windows[n]
            L == strlen(w.name) + 2
        IN  /\ ~w.titled => TitlesOn(w) = {}
            /\ (w.titled /\ L <= getmaxx(w) - 2) =>
                   TitlesOn(w) = {<<TitleColumn(w.title_align, getmaxx(w), L),
                                    <<" ", w.name, " ">>>>}

C18_Witness ==
    \E n \in DOMAIN windows :
        /\ windows[n].name = "Stack"
        /\ getmaxx(windows[n]) = 20
        /\ windows[n].boxed
        /\ windows[n].titled
        /\ windows[n].title_align = "center"
        /\ lastOp = <<"markSelected", n>>
        /\ windows[n].win.out.title =
               {[col |-> 6, text |-> <<" ", "Stack", " ">>, reverse |-> TRUE]}

\* the order after one rotation that brings the last name to the front
LastToFront(o) == <<o[Len(o)]>> \o SubSeq(o, 1, Len(o) - 1)

\* C20: until run() starts no window is selected; run() delivers one forward
\* rotation before it reads a key, which gives the focus to the last name of
\* the configured order (Input) and to no other window; a key other than
\* 'q', resize, tab and back-tab changes neither the focus order nor any
\* selected flag; 'q' ends the loop, after which nothing happens.
C20_RunLoop ==
    [][/\ pc[1] \in {"initWindows", "initContent", "run"} => Selected = {}
       /\ (pc[1] = "run" /\ pc'[1] = "getch") =>
              /\ windowsOrder = initWindowsOrder
              /\ windowsOrder' = LastToFront(windowsOrder)
              /\ Selected' = {"Input"}
       /\ (pc'[1] = "getch" /\ pc[1] = "getch"
              /\ pc'[2] \notin {"KEY_RESIZE", "\t", "KEY_BTAB"}) =>
              /\ windowsOrder' = windowsOrder
              /\ Selected' = Selected
       /\ pc'[2] = "q" <=> pc'[1] = "done"
       /\ pc[1] # "done"]_vars

C20_Witness ==
    /\ pc = <<"done", "q">>
    /\ windowsOrder = <<"Result", "Input", "Stack", "Ops", "Vars">>
    /\ Selected = {"Result"}
    /\ term = <<40, 100>>
====
